---- MODULE Spec2Model ----
(***************************************************************************)
(* Model of src/src/screen_dynamics.py: the gRNA count filter              *)
(* (filter_gRNAs), the column normalisation, the fold-change ranking of    *)
(* the comparator (gRNA_rank), its table of stimulated / unstimulated      *)
(* differences (gRNA_rank_stimulus) and the screen sensitivity table (zez).*)
(*                                                                         *)
(* Strings are sequences of tokens, so that the substring tests of the     *)
(* code ("TCR" in col, index.str.contains("Wnt")) are computed by          *)
(* Contains.  Counts are naturals, NaN is the missing-value marker.        *)
(* Non-integer numbers (percentile, normalised counts, efficiencies) are   *)
(* exact fractions [num, den].                                             *)
(***************************************************************************)
EXTENDS Integers, Sequences, FiniteSets, TLC

VARIABLES
    pc,           \* where the run stands
    df,           \* filter_gRNAs: the matrix passed in
    work,         \* filter_gRNAs: df before the threshold is applied
    filtered,     \* filter_gRNAs: the reference matrix of the noise pool
    lower_bound,  \* filter_gRNAs: the 95th percentile of the noise pool
    out,          \* filter_gRNAs: the matrix returned
    norm,         \* the normalised matrix
    prefix,       \* gRNA_rank: the prefix argument
    s1,           \* gRNA_rank: the reference (plasmid or gDNA) matrix
    s2,           \* gRNA_rank: the screen matrix
    i,            \* gRNA_rank: columns of s2 processed so far
    x,            \* gRNA_rank: the rows of the joined table, as last left
    fc,           \* gRNA_rank: the fold-change series
    xx,           \* gRNA_rank: the rank table
    rank,         \* gRNA_rank: fc.rank(ascending=False, method="first")
    xxx,          \* gRNA_rank_stimulus: the table of differences
    axis,         \* gRNA_rank_stimulus: the axes the iterator has left
    zez           \* the sensitivity table

filterVars == <<df, work, filtered, lower_bound, out, norm>>

stimVars == <<xxx, axis>>

rankVars == <<prefix, s1, s2, i, x, fc, xx, rank, stimVars>>

vars == <<pc, filterVars, rankVars, zez>>

(* ---------------------------------------------------------------------- *)
(* Bounds                                                                 *)
(* ---------------------------------------------------------------------- *)

\* largest count a cell of an input matrix holds
MaxCount == 2

\* largest value a cell of a normalised screen matrix holds
MaxLevel == 2

\* most samples in the sensitivity table
MaxRecords == 3

\* screen Z-scores are n/d with |n| and d up to MaxZ
MaxZ == 2

(* ---------------------------------------------------------------------- *)
(* Values                                                                 *)
(* ---------------------------------------------------------------------- *)

\* pd.np.nan in a matrix of counts (counts are >= 0)
NaN == -1

Counts == 0..MaxCount

Cells == Counts \cup {NaN}

\* a float that is not a count: num/den with den > 0
Frac(n, d) == [num |-> n, den |-> d]

\* float NaN (0/0) and +inf (x/0, x > 0)
NaNF == [num |-> 0, den |-> 0]

InfF == [num |-> 1, den |-> 0]

IsNaNF(f) == f.den = 0 /\ f.num = 0

(* ---------------------------------------------------------------------- *)
(* Strings                                                                *)
(* ---------------------------------------------------------------------- *)

\* Python's `pat in s` / Series.str.contains(pat) for a literal pattern
Contains(s, pat) ==
    \E k \in 1..(Len(s) - Len(pat) + 1) : SubSeq(s, k, k + Len(pat) - 1) = pat

\* gRNAs which were not used in the screen
DefaultFilterOut ==
    { <<"CTRL", n>> : n \in {"00717", "00728", "00783", "00801", "00851", "00859",
                             "00868", "00872", "00878", "00881", "00969", "00972",
                             "00983"} }
    \cup
    { <<"Ess", "ential", "_library_", g, k>> :
          g \in {"ABL1", "MAPK1", "GATA1", "BRCA2", "PARP1"}, k \in {"_1", "_2", "_3"} }

\* index.str.contains("Essential|CTRL")
IsCtrl(g) == Contains(g, <<"Ess", "ential">>) \/ Contains(g, <<"CTRL">>)

plasmid_pool_ESS == <<"plasmid", "_pool_", "ESS">>

(* ---------------------------------------------------------------------- *)
(* Data frames: [index, columns: sequences; val: cell -> value]           *)
(* ---------------------------------------------------------------------- *)

Range(s) == { s[k] : k \in DOMAIN s }

\* no frame yet
Unset == [index |-> <<>>, columns |-> <<>>, val |-> <<>>]

\* df.ix[df.index[~df.index.isin(ids)]]
DropRows(d, ids) ==
    LET idx == SelectSeq(d.index, LAMBDA g : g \notin ids)
    IN  [index |-> idx, columns |-> d.columns,
         val |-> [k \in Range(idx) \X Range(d.columns) |-> d.val[k]]]

\* df.drop(c, axis=1)
DropColumn(d, c) ==
    LET cols == SelectSeq(d.columns, LAMBDA n : n # c)
    IN  [index |-> d.index, columns |-> cols,
         val |-> [k \in Range(d.index) \X Range(cols) |-> d.val[k]]]

(* ---------------------------------------------------------------------- *)
(* filter_gRNAs                                                           *)
(* ---------------------------------------------------------------------- *)

\* the two branches of the loop over the columns
IsTcrColumn(col) == Contains(col, <<"TCR">>) \/ Contains(col, <<"Jurkat">>)

IsWntColumn(col) ==
    ~IsTcrColumn(col) /\ (Contains(col, <<"WNT">>) \/ Contains(col, <<"HEK">>))

\* a row of the reference matrix ("filtered") that controls masking empties
MaskedOthers(g) == IsCtrl(g) /\ g \notin DefaultFilterOut

\* rows of df set to NaN in column col: the opposite library
MaskedInDfMut(g, col) ==
    \/ IsTcrColumn(col) /\ Contains(g, <<"Tcr">>)
    \/ IsWntColumn(col) /\ Contains(g, <<"Wnt">>)

MaskedInDf(g, col) ==
    \/ IsTcrColumn(col) /\ Contains(g, <<"Wnt">>)
    \/ IsWntColumn(col) /\ Contains(g, <<"Tcr">>)

\* rows of filtered set to NaN in column col: the column's own library
MaskedInFilteredMut(g, col) ==
    \/ IsTcrColumn(col) /\ Contains(g, <<"Wnt">>)
    \/ IsWntColumn(col) /\ Contains(g, <<"Tcr">>)

MaskedInFiltered(g, col) ==
    \/ IsTcrColumn(col) /\ Contains(g, <<"Tcr">>)
    \/ IsWntColumn(col) /\ Contains(g, <<"Wnt">>)

\* x[~np.isnan(x)]: how many values of d are defined and at most v
CountLE(d, v) == Cardinality({k \in DOMAIN d.val : d.val[k] # NaN /\ d.val[k] <= v})

PoolSize(d) == Cardinality({k \in DOMAIN d.val : d.val[k] # NaN})

\* the k-th smallest (k from 0) of the defined values of d
OrderStat(d, k) ==
    CHOOSE v \in Counts : CountLE(d, v) > k /\ CountLE(d, v - 1) <= k

\* np.percentile(x, 95), linear interpolation between the two closest ranks,
\* of a non-empty pool
Percentile95(d) ==
    LET n    == PoolSize(d)
        pos  == 95 * (n - 1)
        lo   == pos \div 100
        hi   == IF lo + 1 > n - 1 THEN n - 1 ELSE lo + 1
        a    == OrderStat(d, lo)
        b    == OrderStat(d, hi)
    IN  Frac(100 * a + (pos % 100) * (b - a), 100)

\* df > lower_bound, cell by cell (False for NaN on either side)
AboveBoundMut(v, lb) == v # NaN /\ lb.den > 0 /\ v * lb.den >= lb.num

AboveBound(v, lb) == v # NaN /\ lb.den > 0 /\ v * lb.den > lb.num

\* a cell that fails the test is filled with 0 (as .fillna(0) would)
WhereCellMut(v, lb) == IF AboveBound(v, lb) THEN v ELSE 0

\* one cell of df.where(df > lower_bound, pd.np.nan)
WhereCell(v, lb) == IF AboveBound(v, lb) THEN v ELSE NaN

\* df.where(df > lower_bound, pd.np.nan)
Where(d, lb) == [d EXCEPT !.val = [k \in DOMAIN d.val |-> WhereCell(d.val[k], lb)]]

\* filtered.loc[others, :] = pd.np.nan
MaskOthers(d) ==
    [d EXCEPT !.val = [k \in DOMAIN d.val |->
                          IF MaskedOthers(k[1]) THEN NaN ELSE d.val[k]]]

\* the loop's df.loc[rows, col] = pd.np.nan, over all columns
MaskOppositeInDf(d) ==
    [d EXCEPT !.val = [k \in DOMAIN d.val |->
                          IF MaskedInDf(k[1], k[2]) THEN NaN ELSE d.val[k]]]

\* the loop's filtered.loc[rows, col] = pd.np.nan, over all columns (those
\* of df, which are the columns of the input)
MaskInFiltered(d) ==
    [d EXCEPT !.val = [k \in DOMAIN d.val |->
                          IF MaskedInFiltered(k[1], k[2]) THEN NaN ELSE d.val[k]]]

\* df after the rows of filter_out, the opposite library and plasmid_pool_ESS
\* are removed, before the threshold
Working(d) ==
    LET masked == MaskOppositeInDf(DropRows(d, DefaultFilterOut))
    IN  IF plasmid_pool_ESS \in Range(d.columns)
        THEN DropColumn(masked, plasmid_pool_ESS) ELSE masked

\* filtered: the copy of the input from which the noise pool is read
Reference(d) ==
    LET masked == MaskInFiltered(MaskOthers(d))
    IN  IF plasmid_pool_ESS \in Range(d.columns)
        THEN DropColumn(masked, plasmid_pool_ESS) ELSE masked

(* ---------------------------------------------------------------------- *)
(* Normalisation                                                          *)
(* ---------------------------------------------------------------------- *)

\* 1e4
Total == 10000

RECURSIVE SumSeq(_, _, _)
\* x.sum(skipna=True) of column c over the rows idx
SumSeq(d, idx, c) ==
    IF idx = <<>> THEN 0
    ELSE (IF d.val[<<Head(idx), c>>] = NaN THEN 0 ELSE d.val[<<Head(idx), c>>])
         + SumSeq(d, Tail(idx), c)

\* the divisor of the whole matrix instead of the column's
ColumnSumMut(d, c) ==
    LET RECURSIVE All(_)
        All(cs) == IF cs = <<>> THEN 0 ELSE SumSeq(d, d.index, Head(cs)) + All(Tail(cs))
    IN  All(d.columns)

ColumnSum(d, c) == SumSeq(d, d.index, c)

\* (x / s) * 1e4 for one cell: NaN stays NaN, 0/0 is NaN, x/0 is inf
Rescale(v, s) ==
    IF v = NaN THEN NaNF
    ELSE IF s = 0 THEN (IF v = 0 THEN NaNF ELSE InfF)
    ELSE Frac(v * Total, s)

\* df.apply(lambda x: (x / x.sum(skipna=True)) * 1e4, axis=0)
Normalize(d) ==
    [d EXCEPT !.val = [k \in DOMAIN d.val |-> Rescale(d.val[k], ColumnSum(d, k[2]))]]

(* ---------------------------------------------------------------------- *)
(* gRNA_rank                                                              *)
(* ---------------------------------------------------------------------- *)

plasmid_pool_TCR == <<"plasmid", "_pool_", "TCR">>

plasmid_pool_WNT == <<"plasmid", "_pool_", "WNT">>

gDNA_Jurkat == <<"gDNA_", "Jurkat">>

gDNA_HEKclone4 == <<"gDNA_", "HEK", "clone4">>

gDNA_HEKclone6 == <<"gDNA_", "HEK", "clone6">>

\* the column 0 of pd.DataFrame(pre_sum)
Column0 == <<"0">>

\* a series: [name, index: sequence, val: guide -> float]
NoSeries == [name |-> <<>>, index |-> <<>>, val |-> <<>>]

\* s2.columns[::-1]
RECURSIVE Reversed(_)
Reversed(s) == IF s = <<>> THEN <<>> ELSE Append(Reversed(Tail(s)), Head(s))

\* s1.join(s2): the rows of s1, the columns of both
Join(a, b) ==
    [index |-> a.index, columns |-> a.columns \o b.columns,
     val |-> [k \in Range(a.index) \X (Range(a.columns) \cup Range(b.columns)) |->
                IF k[2] \in Range(a.columns) THEN a.val[k]
                ELSE IF k[1] \in Range(b.index) THEN b.val[k] ELSE NaN]]

\* the row orders np.random.permutation can leave
RowOrders(idx) ==
    { p \in [1..Len(idx) -> Range(idx)] : \A a, b \in 1..Len(idx) : p[a] = p[b] => a = b }

\* x.ix[x.index[~x.index.str.contains(pat)]]
WithoutRows(rows, pat) == SelectSeq(rows, LAMBDA g : ~Contains(g, pat))

\* np.log2(1 + t) - np.log2(1 + r), kept as the ratio (1 + t) / (1 + r) whose
\* log2 it is: fold-changes compare as their ratios do
Log2Ratio(t, r) == IF t = NaN \/ r = NaN THEN NaNF ELSE Frac(1 + t, 1 + r)

\* np.log2(1 + x[screen]) - np.log2(1 + x[ref]) over the rows of x
FoldChange(j, rows, screen, ref) ==
    [name |-> <<>>, index |-> rows,
     val |-> [g \in Range(rows) |-> Log2Ratio(j.val[<<g, screen>>], j.val[<<g, ref>>])]]

\* one `if` of the loop body: when the test holds, x loses the rows of pat
\* and fc is computed against ref
Arm(test, st, j, screen, pat, ref) ==
    IF test
    THEN LET rows == WithoutRows(st.x, pat)
         IN  [x |-> rows, fc |-> FoldChange(j, rows, screen, ref)]
    ELSE st

\* the tests of the branch taken when "original" is in the prefix
OriginalTcrMut(screen) == Contains(screen, <<"TCR">>) \/ Contains(screen, <<"Jurkat">>)

OriginalTcr(screen) == Contains(screen, <<"TCR">>)

OriginalWnt(screen) == Contains(screen, <<"WNT">>)

\* the tests of the branch taken when "plasmid" is not in the prefix
ScreenTcr(screen) == Contains(screen, <<"TCR">>)

Screen4Wnt(screen) == Contains(screen, <<"_4_", "WNT">>)

Screen6Wnt(screen) == Contains(screen, <<"_6_", "WNT">>)

\* the if / elif / else over the prefix: x and fc after it, from the permuted
\* rows and the fc of the iteration before
Branch(pre, j, rows, screen, old) ==
    LET st0 == [x |-> rows, fc |-> old]
    IN  IF Contains(pre, <<"original">>)
        THEN LET st1 == Arm(OriginalTcr(screen), st0, j, screen, <<"Wnt">>, plasmid_pool_TCR)
             IN  Arm(OriginalWnt(screen), st1, j, screen, <<"Tcr">>, plasmid_pool_WNT)
        ELSE IF ~Contains(pre, <<"plasmid">>)
        THEN LET st1 == Arm(ScreenTcr(screen), st0, j, screen, <<"Wnt">>, gDNA_Jurkat)
                 st2 == Arm(Screen4Wnt(screen), st1, j, screen, <<"Tcr">>, gDNA_HEKclone4)
             IN  Arm(Screen6Wnt(screen), st2, j, screen, <<"Tcr">>, gDNA_HEKclone6)
        ELSE [x |-> rows, fc |-> FoldChange(j, rows, screen, Column0)]

\* a > b for two defined floats
GreaterF(a, b) == a.num * b.den > b.num * a.den

EqualF(a, b) == a.num * b.den = b.num * a.den

Position(seq, e) == CHOOSE k \in DOMAIN seq : seq[k] = e

\* the guides that come before g when the series is ranked from the smallest
AheadOfMut(f, g) ==
    { h \in Range(f.index) :
        /\ f.val[h].den > 0
        /\ \/ GreaterF(f.val[g], f.val[h])
           \/ EqualF(f.val[h], f.val[g]) /\ Position(f.index, h) < Position(f.index, g) }

\* the guides that come before g when the series is ranked from the largest,
\* equal values in their order in the series
AheadOf(f, g) ==
    { h \in Range(f.index) :
        /\ f.val[h].den > 0
        /\ \/ GreaterF(f.val[h], f.val[g])
           \/ EqualF(f.val[h], f.val[g]) /\ Position(f.index, h) < Position(f.index, g) }

\* fc.rank(ascending=False, method="first"): NaN keeps NaN
Rank(f) ==
    [g \in Range(f.index) |->
        IF f.val[g].den = 0 THEN NaN ELSE 1 + Cardinality(AheadOf(f, g))]

\* the guide ids in lexicographic order
SortedGuides ==
    << <<"CTRL", "00717">>, <<"Ess", "ential", "_library_", "POLR2A", "_1">>,
       <<"Tcr", "_library_", "CD3E", "_1">>, <<"Wnt", "_library_", "CTNNB1", "_1">> >>

\* pd.DataFrame(fc)
FrameOf(f) ==
    [index |-> f.index, columns |-> <<f.name>>,
     val |-> [k \in Range(f.index) \X {f.name} |-> f.val[k[1]]]]

\* xx.join(fc, how="outer"): the union of the rows, sorted unless both have
\* the same index
JoinOuter(t, f) ==
    LET idx == IF t.index = f.index THEN t.index
               ELSE SelectSeq(SortedGuides,
                              LAMBDA g : g \in Range(t.index) \cup Range(f.index))
    IN  [index |-> idx, columns |-> Append(t.columns, f.name),
         val |-> [k \in Range(idx) \X (Range(t.columns) \cup {f.name}) |->
                    IF k[2] = f.name
                    THEN (IF k[1] \in Range(f.index) THEN f.val[k[1]] ELSE NaNF)
                    ELSE (IF k[1] \in Range(t.index) THEN t.val[k] ELSE NaNF)]]

RankIdle ==
    /\ prefix = <<>>
    /\ s1 = Unset
    /\ s2 = Unset
    /\ i = 0
    /\ x = <<>>
    /\ fc = NoSeries
    /\ xx = Unset
    /\ rank = <<>>
    /\ xxx = Unset
    /\ axis = 0

(* ---------------------------------------------------------------------- *)
(* Inputs                                                                 *)
(* ---------------------------------------------------------------------- *)

WntGuide == <<"Wnt", "_library_", "CTNNB1", "_1">>

TcrGuide == <<"Tcr", "_library_", "CD3E", "_1">>

UnusedCtrl == <<"CTRL", "00717">>

UsedCtrl == <<"Ess", "ential", "_library_", "POLR2A", "_1">>

\* the rows of a count matrix, as pivot_table sorts them: a control guide
\* (one of the unused ones, or one that was used) and a guide of each library
Indexes == { <<UnusedCtrl, TcrGuide, WntGuide>>, <<UsedCtrl, TcrGuide, WntGuide>> }

\* sample and library names, in sorted order
ColumnNames ==
    << <<"CROP-seq_", "HEK", "293T", "_4_", "WNT">>,
       <<"CROP-seq_", "Jurkat", "_", "TCR">>,
       <<"CROP-seq_", "K562">>,
       <<"CROP-seq_", "TCR", "_", "WNT">>,
       plasmid_pool_ESS >>

\* the column lists of an input matrix: two names, sorted
ColumnLists ==
    { <<ColumnNames[p[1]], ColumnNames[p[2]]>> :
        p \in { q \in (DOMAIN ColumnNames) \X (DOMAIN ColumnNames) : q[1] < q[2] } }

Frames(idx, cols) ==
    { [index |-> idx, columns |-> cols, val |-> v] :
        v \in [Range(idx) \X Range(cols) -> Cells] }

(* ---------------------------------------------------------------------- *)
(* The filter and normalisation run                                       *)
(* ---------------------------------------------------------------------- *)

Init ==
    /\ pc = "loaded"
    /\ \E idx \in Indexes : \E cols \in ColumnLists : df \in Frames(idx, cols)
    /\ work = Unset
    /\ filtered = Unset
    /\ lower_bound = NaNF
    /\ out = Unset
    /\ norm = Unset
    /\ RankIdle
    /\ zez = <<>>

\* filter_gRNAs(df) with a noise pool that holds a value
FilterGRNAs ==
    /\ pc = "loaded"
    /\ PoolSize(Reference(df)) > 0
    /\ work' = Working(df)
    /\ filtered' = Reference(df)
    /\ lower_bound' = Percentile95(filtered')
    /\ out' = Where(work', lower_bound')
    /\ pc' = "filtered"
    /\ UNCHANGED <<df, norm, rankVars, zez>>

\* filter_gRNAs(df) with an empty noise pool: the code has no test for it, and
\* what sns.distplot and np.percentile do with an empty array is the
\* libraries' choice: they raise, or the percentile is NaN
FilterGRNAsEmptyPool ==
    /\ pc = "loaded"
    /\ PoolSize(Reference(df)) = 0
    /\ work' = Working(df)
    /\ filtered' = Reference(df)
    /\ lower_bound' = NaNF
    /\ \/ /\ pc' = "error"
          /\ out' = out
       \/ /\ pc' = "filtered"
          /\ out' = Where(work', lower_bound')
    /\ UNCHANGED <<df, norm, rankVars, zez>>

\* the normalisation of a filtered matrix
NormalizeScreen ==
    /\ pc = "filtered"
    /\ norm' = Normalize(out)
    /\ pc' = "normalized"
    /\ UNCHANGED <<df, work, filtered, lower_bound, out, rankVars, zez>>

\* normalize_by_total(df) of a matrix as it was loaded
NormalizeByTotal ==
    /\ pc = "loaded"
    /\ norm' = Normalize(df)
    /\ pc' = "normalized_raw"
    /\ UNCHANGED <<df, work, filtered, lower_bound, out, rankVars, zez>>

Next ==
    \/ FilterGRNAs
    \/ FilterGRNAsEmptyPool
    \/ NormalizeScreen
    \/ NormalizeByTotal

Spec == Init /\ [][Next]_vars

(* ---------------------------------------------------------------------- *)
(* The gRNA_rank run                                                      *)
(* ---------------------------------------------------------------------- *)

\* the prefixes "-".join([s1_, s2_]) of the calls, and one of a plasmid_sum call
Prefixes ==
    { <<"original", "-", "crop_screen">>,
      <<"mid_screen", "-", "crop_screen">>,
      <<"plasmid", "_sum", "-", "crop_screen">> }

\* the columns of the reference matrix that goes with a prefix
ReferenceColumns(pre) ==
    IF Contains(pre, <<"original">>) THEN <<plasmid_pool_TCR, plasmid_pool_WNT>>
    ELSE IF ~Contains(pre, <<"plasmid">>) THEN <<gDNA_HEKclone4, gDNA_HEKclone6, gDNA_Jurkat>>
    ELSE <<Column0>>

\* the sample names of the screen matrix, in sorted order
ScreenNames ==
    << <<"CROP-seq_", "HEK", "293T", "_4_", "WNT">>,
       <<"CROP-seq_", "HEK", "293T", "_6_", "WNT">>,
       <<"CROP-seq_", "Jurkat">>,
       <<"CROP-seq_", "Jurkat", "_", "TCR">>,
       <<"CROP-seq_", "K562">>,
       <<"CROP-seq_", "TCR", "_", "WNT">> >>

ScreenColumnLists ==
    { <<ScreenNames[p[1]], ScreenNames[p[2]]>> :
        p \in { q \in (DOMAIN ScreenNames) \X (DOMAIN ScreenNames) : q[1] < q[2] } }

\* the rows of a filtered matrix
ScreenIndex == <<UsedCtrl, TcrGuide, WntGuide>>

Levels == 1..MaxLevel

\* matrices as filter_gRNAs and the normalisation leave them: the cells of
\* the opposite library are missing, the others are missing or positive
FilteredFrames(idx, cols, values) ==
    { [index |-> idx, columns |-> cols, val |-> v] :
        v \in { w \in [Range(idx) \X Range(cols) -> values \cup {NaN}] :
                  \A k \in Range(idx) \X Range(cols) :
                      MaskedInDf(k[1], k[2]) => w[k] = NaN } }

\* the values of the guides in a reference matrix: all alike, or the control
\* guide twice the others
ReferenceProfiles ==
    { [g \in Range(ScreenIndex) |-> 1],
      [g \in Range(ScreenIndex) |-> IF IsCtrl(g) THEN 2 ELSE 1] }

\* reference matrices: one value for each guide, missing where the filter
\* masks the opposite library
ReferenceFrames(idx, cols) ==
    { [index |-> idx, columns |-> cols,
       val |-> [k \in Range(idx) \X Range(cols) |->
                  IF MaskedInDf(k[1], k[2]) THEN NaN ELSE lv[k[1]]]] :
        lv \in ReferenceProfiles }

InitRank ==
    /\ pc = "rank_loop"
    /\ prefix \in Prefixes
    /\ s1 \in ReferenceFrames(ScreenIndex, ReferenceColumns(prefix))
    /\ \E cols \in ScreenColumnLists : s2 \in FilteredFrames(ScreenIndex, cols, Levels)
    /\ i = 0
    /\ x = <<>>
    /\ fc = NoSeries
    /\ xx = Unset
    /\ rank = <<>>
    /\ xxx = Unset
    /\ axis = 0
    /\ df = Unset /\ work = Unset /\ filtered = Unset /\ lower_bound = NaNF
    /\ out = Unset /\ norm = Unset
    /\ zez = <<>>

\* one pass of `for i, screen in enumerate(s2.columns[::-1])` that leaves fc
\* bound (by this pass or by an earlier one)
RankStep ==
    /\ pc = "rank_loop"
    /\ i < Len(s2.columns)
    /\ \E order \in RowOrders(s1.index) :
          LET screen == Reversed(s2.columns)[i + 1]
              b      == Branch(prefix, Join(s1, s2), order, screen, fc)
          IN  /\ b.fc # NoSeries
              /\ x' = b.x
              /\ fc' = [b.fc EXCEPT !.name = screen]
              /\ xx' = IF i = 0 THEN FrameOf(fc') ELSE JoinOuter(xx, fc')
              /\ rank' = Rank(fc')
    /\ i' = i + 1
    /\ pc' = IF i' = Len(s2.columns) THEN "rank_done" ELSE "rank_loop"
    /\ UNCHANGED <<prefix, s1, s2, stimVars, filterVars, zez>>

\* the first pass with a column that no `if` matches: fc.name = screen finds
\* fc unbound
RankStepUnbound ==
    /\ pc = "rank_loop"
    /\ i < Len(s2.columns)
    /\ LET screen == Reversed(s2.columns)[i + 1]
       IN  Branch(prefix, Join(s1, s2), s1.index, screen, fc).fc = NoSeries
    /\ pc' = "error"
    /\ UNCHANGED <<prefix, s1, s2, i, x, fc, xx, rank, stimVars, filterVars, zez>>

NextRank == RankStep \/ RankStepUnbound

SpecRank == InitRank /\ [][NextRank]_vars

(* ---------------------------------------------------------------------- *)
(* gRNA_rank_stimulus                                                     *)
(* ---------------------------------------------------------------------- *)

\* plt.subplots(1, 3): the axes iter(axis.flatten()) holds at the start
Axes == 3

\* the label str.extract gives a name the pattern does not match (NaN)
NoName == <<>>

\* str.extract("(.*)_stimulated") of one name: what stands before the last
\* "_stimulated" of the name, NaN when the name has none
ExtractStimulated(name) ==
    IF \E k \in DOMAIN name : name[k] = "_stimulated"
    THEN LET last == CHOOSE k \in DOMAIN name :
                        /\ name[k] = "_stimulated"
                        /\ \A m \in DOMAIN name : name[m] = "_stimulated" => m <= k
         IN  SubSeq(name, 1, last - 1)
    ELSE NoName

\* a - b of two fold-changes: the fold-changes are kept as the ratios whose
\* log2 they are, so their difference is the ratio of the ratios
Minus(a, b) ==
    IF a.den = 0 \/ b.den = 0 THEN NaNF ELSE Frac(a.num * b.den, a.den * b.num)

\* (xx[a] - xx[b]).dropna()
Difference(t, a, b) ==
    LET d    == [g \in Range(t.index) |-> Minus(t.val[<<g, a>>], t.val[<<g, b>>])]
        rows == SelectSeq(t.index, LAMBDA g : d[g].den > 0)
    IN  [name |-> <<>>, index |-> rows, val |-> [g \in Range(rows) |-> d[g]]]

\* xxx.columns = xxx.columns.str.extract("(.*)_stimulated"): the labels are
\* replaced one by one; two columns can end with the same label, so the cells
\* of the relabelled table are kept by column position
Relabel(t) ==
    [index |-> t.index,
     columns |-> [k \in DOMAIN t.columns |-> ExtractStimulated(t.columns[k])],
     val |-> [c \in Range(t.index) \X DOMAIN t.columns |-> t.val[<<c[1], t.columns[c[2]]>>]]]

(* ---------------------------------------------------------------------- *)
(* The gRNA_rank_stimulus run                                             *)
(* ---------------------------------------------------------------------- *)

\* sample names of a screen with stimulated and unstimulated samples, in
\* sorted order
StimulusNames ==
    << <<"CROP-seq_", "HEK", "293T", "_4_", "WNT">>,
       <<"CROP-seq_", "Jurkat">>,
       <<"CROP-seq_", "Jurkat", "_", "TCR", "_stimulated">>,
       <<"CROP-seq_", "Jurkat", "_", "TCR", "_unstimulated">> >>

\* the column lists of a screen matrix: one to four of the names, sorted
StimulusColumnLists ==
    { SelectSeq(StimulusNames, LAMBDA c : c \in pick) :
        pick \in (SUBSET Range(StimulusNames)) \ {{}} }

\* screen matrices as filter_gRNAs and the normalisation leave them: the
\* cells of the opposite library are missing, the control guide is counted
\* in every sample, the guides of a library are missing or at one level
StimulusFrames(idx, cols) ==
    { [index |-> idx, columns |-> cols,
       val |-> [k \in Range(idx) \X Range(cols) |->
                  IF MaskedInDf(k[1], k[2]) THEN NaN
                  ELSE IF IsCtrl(k[1]) THEN 1 ELSE lv[k[2]]]] :
        lv \in [Range(cols) -> Levels \cup {NaN}] }

InitStim ==
    /\ pc = "stim_loop"
    /\ prefix \in Prefixes
    /\ s1 \in ReferenceFrames(ScreenIndex, ReferenceColumns(prefix))
    /\ \E cols \in StimulusColumnLists : s2 \in StimulusFrames(ScreenIndex, cols)
    /\ i = 0
    /\ x = <<>>
    /\ fc = NoSeries
    /\ xx = Unset
    /\ rank = <<>>
    /\ xxx = Unset
    /\ axis = Axes
    /\ df = Unset /\ work = Unset /\ filtered = Unset /\ lower_bound = NaNF
    /\ out = Unset /\ norm = Unset
    /\ zez = <<>>

\* one pass of the first loop, `for i, screen in enumerate(s2.columns[::-1])`,
\* that leaves fc bound; the pass after the last column starts the second
\* loop at i = 0
StimulusStep ==
    /\ pc = "stim_loop"
    /\ i < Len(s2.columns)
    /\ \E order \in RowOrders(s1.index) :
          LET screen == Reversed(s2.columns)[i + 1]
              b      == Branch(prefix, Join(s1, s2), order, screen, fc)
          IN  /\ b.fc # NoSeries
              /\ x' = b.x
              /\ fc' = [b.fc EXCEPT !.name = screen]
              /\ xx' = IF i = 0 THEN FrameOf(fc') ELSE JoinOuter(xx, fc')
    /\ i' = IF i + 1 = Len(s2.columns) THEN 0 ELSE i + 1
    /\ pc' = IF i + 1 = Len(s2.columns) THEN "pair_loop" ELSE "stim_loop"
    /\ UNCHANGED <<prefix, s1, s2, rank, stimVars, filterVars, zez>>

\* the first pass with a column that no `if` matches: fc.name = screen finds
\* fc unbound
StimulusStepUnbound ==
    /\ pc = "stim_loop"
    /\ i < Len(s2.columns)
    /\ LET screen == Reversed(s2.columns)[i + 1]
       IN  Branch(prefix, Join(s1, s2), s1.index, screen, fc).fc = NoSeries
    /\ pc' = "error"
    /\ UNCHANGED <<prefix, s1, s2, i, x, fc, xx, rank, stimVars, filterVars, zez>>

\* one pass of `for i in range(0, len(s2.columns), 2)` that finds an axis and
\* a column at i + 1 (screens[i + 2] here, sequences starting at 1).  The
\* colour list of a difference without rows is taken from an empty table,
\* which the library may refuse
PairStep ==
    /\ pc = "pair_loop"
    /\ i < Len(s2.columns)
    /\ axis > 0
    /\ i + 2 <= Len(s2.columns)
    /\ LET screens == Reversed(s2.columns)
           d       == Difference(xx, screens[i + 2], screens[i + 1])
       IN  /\ fc' = [d EXCEPT !.name = screens[i + 2]]
           /\ xxx' = IF i = 0 THEN FrameOf(fc') ELSE JoinOuter(xxx, fc')
           /\ pc' \in (IF d.index = <<>> THEN {"pair_error"} ELSE {})
                      \cup {IF i + 2 >= Len(s2.columns) THEN "pair_done" ELSE "pair_loop"}
    /\ axis' = axis - 1
    /\ i' = i + 2
    /\ UNCHANGED <<prefix, s1, s2, x, xx, rank, filterVars, zez>>

\* a pass of the second loop that raises: axis.next() with no axis left, or
\* screens[i + 1] past the last column
PairStepRaises ==
    /\ pc = "pair_loop"
    /\ i < Len(s2.columns)
    /\ \/ axis = 0 /\ axis' = axis
       \/ axis > 0 /\ i + 2 > Len(s2.columns) /\ axis' = axis - 1
    /\ pc' = "pair_error"
    /\ UNCHANGED <<prefix, s1, s2, i, x, fc, xx, rank, xxx, filterVars, zez>>

\* the end of the function: the columns are relabelled and the table written
WriteDifferences ==
    /\ pc = "pair_done"
    /\ xxx' = Relabel(xxx)
    /\ pc' = "stim_done"
    /\ UNCHANGED <<prefix, s1, s2, i, x, fc, xx, rank, axis, filterVars, zez>>

NextStim ==
    \/ StimulusStep
    \/ StimulusStepUnbound
    \/ PairStep
    \/ PairStepRaises
    \/ WriteDifferences

SpecStim == InitStim /\ [][NextStim]_vars

(* ---------------------------------------------------------------------- *)
(* The sensitivity table                                                  *)
(* ---------------------------------------------------------------------- *)

\* float -inf (x/0, x < 0)
NegInfF == [num |-> -1, den |-> 0]

\* 1 / z for a float z
ReciprocalMut(z) ==
    IF z.den = 0 THEN (IF z.num = 0 THEN NaNF ELSE Frac(0, 1))
    ELSE IF z.num > 0 THEN Frac(z.den, z.num)
    ELSE IF z.num < 0 THEN Frac(-z.den, -z.num)
    ELSE InfF

\* 1 / -z for a float z: -z is -0.0 when z is 0, and 1 / -0.0 is -inf
Reciprocal(z) ==
    IF z.den = 0 THEN (IF z.num = 0 THEN NaNF ELSE Frac(0, 1))
    ELSE IF z.num < 0 THEN Frac(z.den, -z.num)
    ELSE IF z.num > 0 THEN Frac(-z.den, z.num)
    ELSE NegInfF

\* zez["efficiency"] = 1 / -zez["z_score"]
WithEfficiency(t) ==
    [k \in DOMAIN t |->
        [timepoint |-> t[k].timepoint, sample |-> t[k].sample,
         z_score |-> t[k].z_score, efficiency |-> Reciprocal(t[k].z_score)]]

\* a < b for two floats that are not NaN, infinite or not
Below(a, b) ==
    IF a.den > 0 /\ b.den > 0 THEN a.num * b.den < b.num * a.den
    ELSE IF a.den > 0 THEN b.num > 0
    ELSE IF b.den > 0 THEN a.num < 0
    ELSE a.num < b.num

\* the orders zez.sort_values(["efficiency"], ascending=False) can leave:
\* descending, NaN last, equal values in any order
SortedDescending(t) ==
    { [k \in DOMAIN t |-> t[p[k]]] :
        p \in { q \in [DOMAIN t -> DOMAIN t] :
                  /\ \A a, b \in DOMAIN t : q[a] = q[b] => a = b
                  /\ \A a, b \in DOMAIN t :
                        a < b =>
                          LET ea == t[q[a]].efficiency
                              eb == t[q[b]].efficiency
                          IN  IF IsNaNF(ea) THEN IsNaNF(eb)
                              ELSE IsNaNF(eb) \/ ~Below(ea, eb) } }

\* the scores screen_zscore can return: at most 1, or NaN
ZScores ==
    { f \in [num : (0 - MaxZ)..MaxZ, den : 1..MaxZ] : f.num <= f.den } \cup {NaNF}

InitSens ==
    /\ pc = "sens_collect"
    /\ zez = <<>>
    /\ df = Unset /\ work = Unset /\ filtered = Unset /\ lower_bound = NaNF
    /\ out = Unset /\ norm = Unset
    /\ RankIdle

\* zez.append([name, col, z]) for one column of one screen
AppendZ ==
    /\ pc = "sens_collect"
    /\ Len(zez) < MaxRecords
    /\ \E z \in ZScores :
          zez' = Append(zez, [timepoint |-> "crop_screen", sample |-> Len(zez) + 1,
                              z_score |-> z])
    /\ UNCHANGED <<pc, filterVars, rankVars>>

\* the table of all samples gets its efficiency column
Efficiency ==
    /\ pc = "sens_collect"
    /\ zez' = WithEfficiency(zez)
    /\ pc' = "sens_scored"
    /\ UNCHANGED <<filterVars, rankVars>>

\* the table is sorted for the bar plot
SortByEfficiency ==
    /\ pc = "sens_scored"
    /\ zez' \in SortedDescending(zez)
    /\ pc' = "sens_sorted"
    /\ UNCHANGED <<filterVars, rankVars>>

NextSens == AppendZ \/ Efficiency \/ SortByEfficiency

SpecSens == InitSens /\ [][NextSens]_vars

(* ---------------------------------------------------------------------- *)
(* Properties of filter_gRNAs                                             *)
(* ---------------------------------------------------------------------- *)

Defined(d) == { k \in DOMAIN d.val : d.val[k] # NaN }

\* the call returned a matrix
Returned == pc \in {"filtered", "normalized"}

NamedTcr(c) == Contains(c, <<"TCR">>) \/ Contains(c, <<"Jurkat">>)

NamedWnt(c) == Contains(c, <<"WNT">>) \/ Contains(c, <<"HEK">>)

\* C1 as stated: in the returned matrix no "Wnt" row holds a value in a column
\* named "TCR"/"Jurkat" and no "Tcr" row holds a value in a column named
\* "WNT"/"HEK", whatever else the column name contains.
C1_ExclusivityAnyName ==
    Returned =>
        \A k \in Defined(out) :
            /\ ~(Contains(k[1], <<"Wnt">>) /\ NamedTcr(k[2]))
            /\ ~(Contains(k[1], <<"Tcr">>) /\ NamedWnt(k[2]))

\* C1 amended: in the returned matrix no "Wnt" row holds a value in a column
\* named "TCR"/"Jurkat", and no "Tcr" row holds a value in a column named
\* "WNT"/"HEK" and neither "TCR" nor "Jurkat".
C1_Exclusivity ==
    Returned =>
        \A k \in Defined(out) :
            /\ ~(Contains(k[1], <<"Wnt">>) /\ NamedTcr(k[2]))
            /\ ~(Contains(k[1], <<"Tcr">>) /\ NamedWnt(k[2]) /\ ~NamedTcr(k[2]))

\* a value above the threshold was removed because its guide is of the
\* opposite library, next to a value that was returned
C1_Witness ==
    /\ pc = "filtered"
    /\ Defined(out) # {}
    /\ \E k \in DOMAIN out.val :
          /\ Contains(k[1], <<"Wnt">>) /\ NamedTcr(k[2])
          /\ df.val[k] # NaN
          /\ df.val[k] * lower_bound.den > lower_bound.num
          /\ out.val[k] = NaN

\* C2: the returned matrix has rows and columns of the input only, and each
\* of its defined cells holds the value that the input holds in that cell.
C2_NoIntroducedValue ==
    Returned =>
        /\ Range(out.index) \subseteq Range(df.index)
        /\ Range(out.columns) \subseteq Range(df.columns)
        /\ \A k \in Defined(out) : df.val[k] # NaN /\ out.val[k] = df.val[k]

\* a returned matrix with a value kept, a value removed, and a cell that was
\* missing in the input
C2_Witness ==
    /\ pc = "filtered"
    /\ \E k \in DOMAIN out.val : out.val[k] # NaN
    /\ \E k \in DOMAIN out.val : out.val[k] = NaN /\ df.val[k] # NaN
    /\ \E k \in DOMAIN out.val : out.val[k] = NaN /\ df.val[k] = NaN

\* the pool of the call: the defined values of the reference matrix
PoolBelow(lb) == { k \in Defined(filtered) : filtered.val[k] * lb.den < lb.num }

PoolUpTo(lb) == { k \in Defined(filtered) : filtered.val[k] * lb.den <= lb.num }

\* C3: the threshold T of a call that returned is the 95th percentile of the
\* pool (more than 95% of the steps between the pool's ranks lie at or below
\* T, and no more than that lie strictly below); every cell of the working
\* matrix with a value <= T is missing in the returned matrix and every cell
\* with a value > T keeps it.
C3_ThresholdMasking ==
    (Returned /\ Defined(filtered) # {}) =>
        LET n == Cardinality(Defined(filtered))
        IN  /\ lower_bound.den > 0
            /\ 100 * Cardinality(PoolUpTo(lower_bound)) > 95 * (n - 1)
            /\ 100 * Cardinality(PoolBelow(lower_bound)) <= 95 * (n - 1) + 100
            /\ \E k \in Defined(filtered) :
                  filtered.val[k] * lower_bound.den >= lower_bound.num
            /\ \A k \in DOMAIN work.val :
                  LET v == work.val[k]
                  IN  /\ (v # NaN /\ v * lower_bound.den <= lower_bound.num)
                            => out.val[k] = NaN
                      /\ (v # NaN /\ v * lower_bound.den > lower_bound.num)
                            => out.val[k] = v

\* a cell exactly at the threshold was removed and a cell above it was kept
C3_Witness ==
    /\ pc = "filtered"
    /\ lower_bound.den > 0
    /\ \E k \in Defined(work) :
          work.val[k] * lower_bound.den = lower_bound.num /\ out.val[k] = NaN
    /\ \E k \in Defined(work) :
          work.val[k] * lower_bound.den > lower_bound.num /\ out.val[k] = work.val[k]

\* C6: a call whose reference matrix holds no value returns no matrix.
C6_EmptyPoolFails ==
    (pc # "loaded" /\ pc # "normalized_raw" /\ Defined(filtered) = {}) => pc = "error"

\* C9 as stated: in a column classified "TCR"/"Jurkat" the "Wnt" rows are
\* missing in the working matrix and in the reference matrix, and in a column
\* classified "WNT"/"HEK" the "Tcr" rows are missing in both.
C9_MaskedAlike ==
    Returned =>
        \A k \in DOMAIN work.val :
            /\ (NamedTcr(k[2]) /\ Contains(k[1], <<"Wnt">>))
                  => (work.val[k] = NaN /\ filtered.val[k] = NaN)
            /\ (~NamedTcr(k[2]) /\ NamedWnt(k[2]) /\ Contains(k[1], <<"Tcr">>))
                  => (work.val[k] = NaN /\ filtered.val[k] = NaN)

\* the other library of a column: "Wnt" rows of a "TCR"/"Jurkat" column,
\* "Tcr" rows of a "WNT"/"HEK" column
OtherLibrary(g, c) ==
    \/ NamedTcr(c) /\ Contains(g, <<"Wnt">>)
    \/ ~NamedTcr(c) /\ NamedWnt(c) /\ Contains(g, <<"Tcr">>)

\* the library of a column
OwnLibrary(g, c) ==
    \/ NamedTcr(c) /\ Contains(g, <<"Tcr">>)
    \/ ~NamedTcr(c) /\ NamedWnt(c) /\ Contains(g, <<"Wnt">>)

\* C9 amended: the rows of the other library are missing in the working
\* matrix; in the reference matrix it is the rows of the column's own
\* library that are missing, and the cells of the other library keep their
\* input value, so that they are the pool of the noise threshold.
C9_MaskedOpposite ==
    Returned =>
        /\ \A k \in DOMAIN work.val : OtherLibrary(k[1], k[2]) => work.val[k] = NaN
        /\ \A k \in DOMAIN filtered.val :
              /\ OwnLibrary(k[1], k[2]) => filtered.val[k] = NaN
              /\ (OtherLibrary(k[1], k[2]) /\ ~OwnLibrary(k[1], k[2]) /\ ~IsCtrl(k[1]))
                    => filtered.val[k] = df.val[k]

\* a value of the other library is in the pool and not in the working matrix,
\* a value of the column's own library is in the working matrix only
C9_Witness ==
    /\ pc = "filtered"
    /\ \E k \in DOMAIN work.val :
          /\ OtherLibrary(k[1], k[2])
          /\ filtered.val[k] # NaN /\ work.val[k] = NaN
    /\ \E k \in DOMAIN work.val :
          /\ OwnLibrary(k[1], k[2])
          /\ filtered.val[k] = NaN /\ work.val[k] # NaN

(* ---------------------------------------------------------------------- *)
(* Properties of the normalisation                                        *)
(* ---------------------------------------------------------------------- *)

Normalized == pc \in {"normalized", "normalized_raw"}

\* the matrix that was normalised
NormInput == IF pc = "normalized" THEN out ELSE df

\* the sum of the defined values of a column, value by value
DefinedTotal(d, c) ==
    LET RECURSIVE Upto(_)
        Upto(v) ==
            IF v = 0 THEN 0
            ELSE v * Cardinality({g \in Range(d.index) : d.val[<<g, c>>] = v}) + Upto(v - 1)
    IN  Upto(MaxCount)

RECURSIVE SumF(_, _, _)
\* the sum of the defined values of column c of a normalised matrix
SumF(d, idx, c) ==
    IF idx = <<>> THEN Frac(0, 1)
    ELSE LET f    == d.val[<<Head(idx), c>>]
             rest == SumF(d, Tail(idx), c)
         IN  IF f.den = 0 THEN rest
             ELSE Frac(f.num * rest.den + rest.num * f.den, f.den * rest.den)

\* C4: in a column whose defined values sum to S > 0 every defined value v
\* becomes v * 10000 / S, missing cells stay missing and the normalised
\* column sums to 10000.
C4_ColumnNormalization ==
    Normalized =>
        \A c \in Range(NormInput.columns) :
            LET S == DefinedTotal(NormInput, c)
            IN  S > 0 =>
                  /\ \A g \in Range(NormInput.index) :
                        LET v == NormInput.val[<<g, c>>]
                            f == norm.val[<<g, c>>]
                        IN  IF v = NaN THEN f = NaNF
                            ELSE f.den > 0 /\ f.num * S = v * 10000 * f.den
                  /\ LET t == SumF(norm, norm.index, c)
                     IN  t.num = 10000 * t.den

\* two columns with different positive sums were normalised, one of them
\* with a missing cell and two defined ones
C4_Witness ==
    /\ Normalized
    /\ \E c1, c2 \in Range(NormInput.columns) :
          /\ DefinedTotal(NormInput, c1) > DefinedTotal(NormInput, c2)
          /\ DefinedTotal(NormInput, c2) > 0
          /\ \E g1, g2, g3 \in Range(NormInput.index) :
                /\ g1 # g2
                /\ NormInput.val[<<g1, c1>>] > 0
                /\ NormInput.val[<<g2, c1>>] > 0
                /\ NormInput.val[<<g3, c1>>] = NaN

\* C5: the normalisation of a matrix with a column whose defined values sum
\* to zero, or that has no defined value, does not return: it ends in an error.
C5_DegenerateColumnRaises ==
    Normalized => \A c \in Range(NormInput.columns) : DefinedTotal(NormInput, c) > 0

(* ---------------------------------------------------------------------- *)
(* Properties of gRNA_rank                                                *)
(* ---------------------------------------------------------------------- *)

\* a pass of the loop has ranked fc
Ranked == pc \in {"rank_loop", "rank_done"} /\ i > 0

\* the column of the last pass
Screen == Reversed(s2.columns)[i]

HasFc == { g \in Range(fc.index) : fc.val[g].den > 0 }

FcAbove(g, h) == fc.val[g].num * fc.val[h].den > fc.val[h].num * fc.val[g].den

FcTied(g, h) == fc.val[g].num * fc.val[h].den = fc.val[h].num * fc.val[g].den

Before(seq, g, h) ==
    \E a, b \in DOMAIN seq : seq[a] = g /\ seq[b] = h /\ a < b

\* the guides with a fold-change get the ranks 1..k, each once, the others
\* none, and a greater fold-change gets a smaller rank
RanksDescend ==
    /\ DOMAIN rank = Range(fc.index)
    /\ \A g \in Range(fc.index) \ HasFc : rank[g] = NaN
    /\ { rank[g] : g \in HasFc } = 1..Cardinality(HasFc)
    /\ \A g, h \in HasFc : FcAbove(g, h) => rank[g] < rank[h]

\* C8 as stated: ranks 1..k descending by fold-change, and guides with equal
\* fold-change ranked in the row order of the input matrices.
C8_TiesInInputOrder ==
    Ranked =>
        /\ RanksDescend
        /\ \A g, h \in HasFc :
              (FcTied(g, h) /\ Before(s1.index, g, h)) => rank[g] < rank[h]

\* C8 amended: ranks 1..k descending by fold-change, and guides with equal
\* fold-change ranked in their order in the series that is ranked, which is
\* the row order the random permutation left.
C8_TiesInSeriesOrder ==
    Ranked =>
        /\ RanksDescend
        /\ \A g, h \in HasFc :
              (FcTied(g, h) /\ Before(fc.index, g, h)) => rank[g] < rank[h]

\* three guides are ranked, two of them tied below the third and permuted
\* against their input order
C8_Witness ==
    /\ Ranked
    /\ \E g, h, t \in HasFc :
          /\ FcAbove(t, g) /\ FcTied(g, h)
          /\ Before(s1.index, g, h) /\ Before(fc.index, h, g)
          /\ rank[t] = 1 /\ rank[h] = 2 /\ rank[g] = 3

\* the guides the last pass removed from the joined table
Excluded == Range(s1.index) \ Range(x)

\* C10 as stated: for every column and prefix the guides the comparator
\* excludes are the guides filter_gRNAs masks in that column.
C10_SameRulesAsFilter ==
    Ranked => \A g \in Range(s1.index) : g \in Excluded <=> MaskedInDf(g, Screen)

\* the prefixes under which the comparator tests the column name
TestsName == Contains(prefix, <<"original">>) \/ ~Contains(prefix, <<"plasmid">>)

HasTcr == Contains(Screen, <<"TCR">>)

HasWnt == Contains(Screen, <<"WNT">>)

HasNumberedWnt ==
    Contains(Screen, <<"_4_", "WNT">>) \/ Contains(Screen, <<"_6_", "WNT">>)

\* C10 amended: under a prefix that contains "original" or does not contain
\* "plasmid", a column named "TCR" and not "WNT" excludes the "Wnt" guides
\* and a column named "_4_WNT" or "_6_WNT" and neither "TCR" nor "Jurkat"
\* excludes the "Tcr" guides, as filter_gRNAs masks them; a column named
\* neither "TCR" nor "WNT", and every column under a prefix with "plasmid"
\* and without "original", excludes no guide.
C10_NarrowerRules ==
    Ranked =>
        /\ (TestsName /\ HasTcr /\ ~HasWnt) =>
              \A g \in Range(s1.index) :
                  /\ g \in Excluded <=> Contains(g, <<"Wnt">>)
                  /\ g \in Excluded <=> MaskedInDf(g, Screen)
        /\ (TestsName /\ HasNumberedWnt /\ ~HasTcr /\ ~Contains(Screen, <<"Jurkat">>)) =>
              \A g \in Range(s1.index) :
                  /\ g \in Excluded <=> Contains(g, <<"Tcr">>)
                  /\ g \in Excluded <=> MaskedInDf(g, Screen)
        /\ (~TestsName \/ (~HasTcr /\ ~HasWnt)) => Excluded = {}

\* under "original", after a pass over a "TCR" column, the pass over a
\* "_4_WNT" column left the "Tcr" guide out, the guide the filter masks there
C10_Witness ==
    /\ pc = "rank_done"
    /\ Contains(prefix, <<"original">>)
    /\ HasNumberedWnt /\ ~HasTcr
    /\ Excluded = {TcrGuide}
    /\ MaskedInDf(TcrGuide, Screen)
    /\ Contains(Reversed(s2.columns)[1], <<"TCR">>)
    /\ fc.val[WntGuide].den > 0

\* the column of the last pass meets one of the tests of its prefix (the
\* `else` of a "plasmid" prefix has no test)
MatchesPattern ==
    IF Contains(prefix, <<"original">>) THEN HasTcr \/ HasWnt
    ELSE IF ~Contains(prefix, <<"plasmid">>) THEN HasTcr \/ HasNumberedWnt
    ELSE TRUE

\* the series stored under the column of the last pass is the fold-change of
\* that column's values against one reference column
OwnFoldChange ==
    \E ref \in Range(s1.columns) :
        \A g \in Range(fc.index) :
            xx.val[<<g, Screen>>] = Log2Ratio(s2.val[<<g, Screen>>], s1.val[<<g, ref>>])

\* the series stored under the column of the last pass is the series of the
\* pass before it, and no test of the prefix matched the column
CarriedOver ==
    /\ i > 1
    /\ ~MatchesPattern
    /\ \A g \in Range(fc.index) :
          xx.val[<<g, Screen>>] = xx.val[<<g, Reversed(s2.columns)[i - 1]>>]

\* C12 as stated: after every pass of the loop of gRNA_rank, the series stored
\* in the rank table under the pass's column is the fold-change of that
\* column's own values against its reference column, and a column that no
\* branch pattern matches does not hold the series of the column before it.
C12_OwnFoldChangeStored ==
    Ranked => OwnFoldChange /\ ~CarriedOver

(* ---------------------------------------------------------------------- *)
(* Properties of gRNA_rank_stimulus                                       *)
(* ---------------------------------------------------------------------- *)

\* the second loop has ended, by running out of indexes or by raising
PairsEnded == pc \in {"stim_done", "pair_error"}

\* s2.columns[::-1], the columns as both loops take them
Screens == Reversed(s2.columns)

\* the even indexes below the number of columns (the first column is 0)
EvenIndexes == { e \in 0..(Len(s2.columns) - 1) : e % 2 = 0 }

\* the fold-change of guide g in column c of the table of the first loop
FoldChangeOf(g, c) == IF g \in Range(xx.index) THEN xx.val[<<g, c>>] ELSE NaNF

\* the cell of guide g in the k-th column of the table of differences
DifferenceOf(g, k) ==
    IF g \notin Range(xxx.index) THEN NaNF
    ELSE IF pc = "stim_done" THEN xxx.val[<<g, k>>]
    ELSE xxx.val[<<g, xxx.columns[k]>>]

\* the label is the name, or the name without its "_stimulated" ending
NamedAfter(label, name) ==
    \/ label = name
    \/ label # NoName /\ label = ExtractStimulated(name)

\* the k-th column of differences is fold-change[a] - fold-change[b] on the
\* guides that have both, and has no other guide
IsDifference(k, a, b) ==
    \A g \in Range(s1.index) :
        LET d == DifferenceOf(g, k)
            m == Minus(FoldChangeOf(g, a), FoldChangeOf(g, b))
        IN  /\ d.den > 0 <=> m.den > 0
            /\ d.den > 0 => EqualF(d, m)

\* C11 as stated: when the second loop of gRNA_rank_stimulus has ended, the
\* table of differences has one column for each even index i below the
\* number of columns of s2 and no other; that column is named after column
\* i + 1 of the reversed columns and holds fold-change[i + 1] minus
\* fold-change[i] for the guides that have both fold-changes.
C11_PairForEachEvenIndex ==
    PairsEnded =>
        /\ Len(xxx.columns) = Cardinality(EvenIndexes)
        /\ \A e \in EvenIndexes :
              /\ e + 2 <= Len(Screens)
              /\ NamedAfter(xxx.columns[(e \div 2) + 1], Screens[e + 2])
              /\ IsDifference((e \div 2) + 1, Screens[e + 2], Screens[e + 1])

(* ---------------------------------------------------------------------- *)
(* Properties of the sensitivity table                                    *)
(* ---------------------------------------------------------------------- *)

Scored == pc \in {"sens_scored", "sens_sorted"}

NegativeScore(r) == r.z_score.den > 0 /\ r.z_score.num < 0

\* score of a < score of b
ScoreBelow(a, b) == a.z_score.num * b.z_score.den < b.z_score.num * a.z_score.den

\* efficiency of a < efficiency of b, both finite
EfficiencyBelow(a, b) ==
    /\ a.efficiency.den > 0 /\ b.efficiency.den > 0
    /\ a.efficiency.num * b.efficiency.den < b.efficiency.num * a.efficiency.den

\* efficiency = 1 / (-z_score) for a score that is neither zero nor NaN
IsInverseOfNegated(r) ==
    (r.z_score.den > 0 /\ r.z_score.num # 0) =>
        /\ r.efficiency.den > 0
        /\ r.efficiency.num * (0 - r.z_score.num) = r.efficiency.den * r.z_score.den

\* C7 as stated: efficiency = 1 / (-z_score), of two records with negative
\* scores the one with the more negative score has the higher efficiency,
\* and the sort by efficiency, descending, puts it first.
C7_MoreNegativeIsHigher ==
    Scored =>
        /\ \A k \in DOMAIN zez : IsInverseOfNegated(zez[k])
        /\ \A a, b \in DOMAIN zez :
              (NegativeScore(zez[a]) /\ NegativeScore(zez[b]) /\ ScoreBelow(zez[a], zez[b]))
                  => /\ EfficiencyBelow(zez[b], zez[a])
                     /\ pc = "sens_sorted" => a < b

\* C7 amended: efficiency = 1 / (-z_score), of two records with negative
\* scores the one with the more negative score has the strictly lower
\* efficiency, and the sort by efficiency, descending, puts it last of the two.
C7_MoreNegativeIsLower ==
    Scored =>
        /\ \A k \in DOMAIN zez : IsInverseOfNegated(zez[k])
        /\ \A a, b \in DOMAIN zez :
              (NegativeScore(zez[a]) /\ NegativeScore(zez[b]) /\ ScoreBelow(zez[a], zez[b]))
                  => /\ EfficiencyBelow(zez[a], zez[b])
                     /\ pc = "sens_sorted" => b < a

\* a sorted table in which the sort moved the record with the more negative
\* of two negative scores behind the other
C7_Witness ==
    /\ pc = "sens_sorted"
    /\ \E a, b \in DOMAIN zez :
          /\ NegativeScore(zez[a]) /\ NegativeScore(zez[b])
          /\ ScoreBelow(zez[b], zez[a])
          /\ a < b
          /\ zez[b].sample < zez[a].sample

====
